---- MODULE Spec2Model ----
(***************************************************************************)
(* Model of packages/common/src/TruffleConfig.js: the module body (lines   *)
(* 18-175) is executed once when the module is required, one statement     *)
(* group per step; once it has completed, the exported getTruffleConfig    *)
(* and the provider factories stored in the network table may be invoked   *)
(* any number of times, in any order.                                      *)
(***************************************************************************)
EXTENDS Integers, Sequences, FiniteSets, TLC

VARIABLES env, pc, mnemonic, privateKey, infuraApiKey, customNodeUrl,
          keyOffset, numKeys, nodeUrl, singletonProvider, networks, i,
          heap, returned, firstSuccess, lastThrow, result

vars == <<env, pc, mnemonic, privateKey, infuraApiKey, customNodeUrl,
          keyOffset, numKeys, nodeUrl, singletonProvider, networks, i,
          heap, returned, firstSuccess, lastThrow, result>>

(***************************************************************************)
(* JavaScript values.  A number is kept as its decimal rendering, so that  *)
(* 20000000000 and NaN are representable; a string is kept as a TLA+       *)
(* string, or as a tuple of characters where the code looks inside it.     *)
(***************************************************************************)
Undefined == [t |-> "undefined"]
Str(s) == [t |-> "string", v |-> s]
Num(d) == [t |-> "number", v |-> d]
Arr(a) == [t |-> "array", v |-> a]
Obj(o) == [t |-> "object", v |-> o]
Ref(n) == [t |-> "ref", v |-> n]
\* The n-th provider object constructed by the process.
Instance(n) == [t |-> "instance", id |-> n]

\* ToBoolean, as applied by ?: , || and ! .
Truthy(x) ==
  CASE x.t = "undefined" -> FALSE
    [] x.t = "string" -> Len(x.v) # 0
    [] x.t = "number" -> x.v \notin {"0", "NaN"}
    [] OTHER -> TRUE

\* The bound on the number of provider objects the model lets constructors
\* allocate.
MaxObjects == 3

(***************************************************************************)
(* The process environment.  process.env maps a variable name to a string; *)
(* a variable that is not set reads as undefined.                          *)
(***************************************************************************)
Opt(values) == {Undefined} \cup {Str(v) : v \in values}

Environments ==
  [MNEMONIC : Opt({"", "test test junk"}),
   PRIVATE_KEY : Opt({"", "0xabc"}),
   INFURA_API_KEY : Opt({"", "key123"}),
   CUSTOM_NODE_URL : Opt({"", "http://localhost:8545"}),
   KEY_OFFSET : Opt({<<" ", "0", "7", "x">>}),
   NUM_KEYS : Opt({<<>>, <<"k">>}),
   LOCALHOST : Opt({"", "10.0.0.5"}),
   LOCALPORT : Opt({"9999"})]

\* The environments of the runs in which the provider factories are invoked:
\* the variables read by the factories' closures are set or not.
CallEnvironments ==
  {e \in Environments :
     /\ e.MNEMONIC # Str("") /\ e.PRIVATE_KEY # Str("")
     /\ e.NUM_KEYS # Str(<<>>)
     /\ e.INFURA_API_KEY = Undefined
     /\ e.LOCALHOST = Undefined /\ e.LOCALPORT = Undefined}

\* K in process.env
InEnv(e, k) == e[k].t # "undefined"

(***************************************************************************)
(* parseInt(string) with no radix, for strings without a 0x prefix: skip   *)
(* leading white space, read an optional sign and the longest prefix of    *)
(* decimal digits; NaN when there is no digit.                             *)
(***************************************************************************)
Digits == {"0", "1", "2", "3", "4", "5", "6", "7", "8", "9"}

RECURSIVE SkipSpace(_)
SkipSpace(cs) ==
  IF cs # <<>> /\ Head(cs) = " " THEN SkipSpace(Tail(cs)) ELSE cs

RECURSIVE DigitPrefix(_)
DigitPrefix(cs) ==
  IF cs # <<>> /\ Head(cs) \in Digits
    THEN <<Head(cs)>> \o DigitPrefix(Tail(cs))
    ELSE <<>>

RECURSIVE SkipZeros(_)
SkipZeros(ds) ==
  IF Len(ds) > 1 /\ Head(ds) = "0" THEN SkipZeros(Tail(ds)) ELSE ds

RECURSIVE Concat(_)
Concat(cs) == IF cs = <<>> THEN "" ELSE Head(cs) \o Concat(Tail(cs))

parseInt(cs) ==
  LET s == SkipSpace(cs)
      neg == s # <<>> /\ Head(s) = "-"
      u == IF s # <<>> /\ Head(s) \in {"-", "+"} THEN Tail(s) ELSE s
      ds == SkipZeros(DigitPrefix(u))
  IN IF ds = <<>> THEN Num("NaN")
     ELSE IF neg /\ ds # <<"0">> THEN Num("-" \o Concat(ds))
     ELSE Num(Concat(ds))

(***************************************************************************)
(* Lines 18-31: the credentials and the key window.                        *)
(***************************************************************************)
FallbackMnemonic ==
  "candy maple cake sugar pudding cream honey rich smooth crumble sweet treat"
FallbackPrivateKey ==
  "0x348ce564d427a3311b6536bbcff9390d69395b06ed6c486954e971d960fe8709"
FallbackInfuraApiKey == "e34138b2db5b496ab5cc52319d2f0299"

ResolveMnemonic(e) ==
  IF Truthy(e.MNEMONIC) THEN e.MNEMONIC ELSE Str(FallbackMnemonic)

\* A resolution that tests the presence of the variable, not its value.
ResolvePrivateKey_IfPresent(e) ==
  IF InEnv(e, "PRIVATE_KEY") THEN e.PRIVATE_KEY ELSE Str(FallbackPrivateKey)

ResolvePrivateKey(e) ==
  IF Truthy(e.PRIVATE_KEY) THEN e.PRIVATE_KEY ELSE Str(FallbackPrivateKey)

ResolveInfuraApiKey(e) ==
  IF Truthy(e.INFURA_API_KEY) THEN e.INFURA_API_KEY
  ELSE Str(FallbackInfuraApiKey)

ResolveKeyOffset(e) ==
  IF Truthy(e.KEY_OFFSET) THEN parseInt(e.KEY_OFFSET.v) ELSE Num("0")

ResolveNumKeys(e) ==
  IF Truthy(e.NUM_KEYS) THEN parseInt(e.NUM_KEYS.v) ELSE Num("2")

\* Default options, lines 35-36.
gasPx == Num("20000000000")
gas == Undefined

(***************************************************************************)
(* Line 39.  The right operand of || is evaluated only when customNodeUrl  *)
(* is falsy; it is a template literal over the identifiers name and        *)
(* infuraApiKey.  ModuleScope lists the bindings visible at line 39: the   *)
(* CommonJS wrapper's parameters, the requires, the hoisted function       *)
(* declarations and the constants declared above it.  The name of line 150 *)
(* is local to the for statement.  An identifier that resolves nowhere     *)
(* raises a ReferenceError.                                                *)
(***************************************************************************)
ModuleScope ==
  {"exports", "require", "module", "__filename", "__dirname",
   "path", "HDWalletProvider", "LedgerWalletProvider", "GckmsConfig",
   "ManagedSecretProvider", "PublicNetworks", "MetaMaskTruffleProvider",
   "mnemonic", "privateKey", "infuraApiKey", "customNodeUrl", "keyOffset",
   "numKeys", "singletonProvider", "gasPx", "gas",
   "addPublicNetwork", "addLocalNetwork", "getTruffleConfig"}

TemplateIdentifiers == {"name", "infuraApiKey"}

Value(v) == [outcome |-> "value", value |-> v]
Throw(err) == [outcome |-> "throw", value |-> Str(err)]

\* The template of line 39, for a network name and an API key.
InfuraUrl(name, apiKey) == "wss://" \o name \o ".infura.io/ws/v3/" \o apiKey

\* What name would read as if the scope bound it; the source binds it
\* nowhere at module level.
ScopeName == ""

ResolveNodeUrl(custom, apiKey) ==
  IF Truthy(custom) THEN Value(custom)
  ELSE IF TemplateIdentifiers \subseteq ModuleScope
    THEN Value(Str(InfuraUrl(ScopeName, apiKey.v)))
    ELSE Throw("ReferenceError")

(***************************************************************************)
(* The table required from ./PublicNetworks.js, as Object.entries lists    *)
(* it: the keys are the chain ids, as strings, in ascending order.         *)
(***************************************************************************)
PublicNetworks ==
  <<[id |-> Str("1"), name |-> "mainnet"],
    [id |-> Str("42"), name |-> "kovan"]>>

\* The array required from ./gckms/GckmsConfig.js and its length.
GckmsConfig == Ref("GckmsConfig")
GckmsConfigLength == Ref("GckmsConfig.length")

(***************************************************************************)
(* A provider factory is a function object.  It closes over the module     *)
(* level bindings and, for the factories of addPublicNetwork, over the     *)
(* options objects built by the call that created it.                      *)
(***************************************************************************)
Closure(kind, name, networkId) ==
  [t |-> "function", kind |-> kind, name |-> name, networkId |-> networkId]

\* Lines 85-95.
legacyLedgerOptions(networkId) ==
  Obj(("networkId" :> networkId) @@ ("accountsLength" :> numKeys)
      @@ ("accountsOffset" :> keyOffset))

ledgerOptions(networkId) ==
  Obj(("path" :> Str("44'/60'/0'/0/0")) @@ legacyLedgerOptions(networkId).v)

\* The new-expression of each factory: the constructor and its arguments.
NewExpression(f, provider) ==
  CASE f.kind = "gckms" ->
         [class |-> "ManagedSecretProvider",
          args |-> <<GckmsConfig, provider, Num("0"), GckmsConfigLength>>]
    [] f.kind = "privatekey" ->
         [class |-> "HDWalletProvider",
          args |-> <<Arr(<<privateKey>>), provider>>]
    [] f.kind = "mnemonic" ->
         [class |-> "HDWalletProvider",
          args |-> <<mnemonic, provider, keyOffset, numKeys>>]
    [] f.kind = "ledger" ->
         [class |-> "LedgerWalletProvider",
          args |-> <<ledgerOptions(f.networkId), provider>>]
    [] f.kind = "ledger_legacy" ->
         [class |-> "LedgerWalletProvider",
          args |-> <<legacyLedgerOptions(f.networkId), provider>>]
    [] f.kind = "metamask" ->
         [class |-> "MetaMaskTruffleProvider", args |-> <<>>]

\* The default parameter of the public factories (provider = nodeUrl); the
\* metamask factory declares no parameter.
Parameter(f, arg) ==
  IF f.kind = "metamask" THEN Undefined
  ELSE IF arg = Undefined THEN nodeUrl ELSE arg

(***************************************************************************)
(* The body shared by the six factories (lines 55-60, 66-71, 77-82,        *)
(* 100-105, 112-117, 167-172).  slot is singletonProvider and objects the  *)
(* providers constructed so far; ok tells whether the constructor returns  *)
(* or throws.  A throw leaves the assignment unexecuted.                   *)
(***************************************************************************)
\* A factory that constructs a provider on every invocation.
ProviderFactory_NoCheck(f, arg, slot, objects, ok) ==
  IF ok
    THEN LET made == Append(objects, NewExpression(f, Parameter(f, arg)))
         IN [slot |-> Instance(Len(made)), objects |-> made,
             outcome |-> "return", value |-> Instance(Len(made))]
    ELSE [slot |-> slot, objects |-> objects,
          outcome |-> "throw", value |-> Str("Error")]

\* Factories that keep one provider per class of provider: an invocation
\* whose class differs from the stored provider's replaces it.
ProviderFactory_PerClass(f, arg, slot, objects, ok) ==
  LET new == NewExpression(f, Parameter(f, arg))
      made == Append(objects, new)
  IN IF Truthy(slot) /\ objects[slot.id].class = new.class
       THEN [slot |-> slot, objects |-> objects,
             outcome |-> "return", value |-> slot]
     ELSE IF ok
       THEN [slot |-> Instance(Len(made)), objects |-> made,
             outcome |-> "return", value |-> Instance(Len(made))]
     ELSE [slot |-> slot, objects |-> objects,
           outcome |-> "throw", value |-> Str("Error")]

\* Factories whose default endpoint overrides the caller's argument.
ProviderFactory_DefaultEndpoint(f, arg, slot, objects, ok) ==
  IF ~Truthy(slot)
    THEN IF ok
      THEN LET made == Append(objects,
                              NewExpression(f, Parameter(f, Undefined)))
           IN [slot |-> Instance(Len(made)), objects |-> made,
               outcome |-> "return", value |-> Instance(Len(made))]
      ELSE [slot |-> slot, objects |-> objects,
            outcome |-> "throw", value |-> Str("Error")]
    ELSE [slot |-> slot, objects |-> objects,
          outcome |-> "return", value |-> slot]

\* Factories that catch the constructor's exception and store a
\* placeholder, which later invocations return.
ProviderFactory_Swallow(f, arg, slot, objects, ok) ==
  IF ~Truthy(slot)
    THEN LET made == Append(objects,
                            IF ok THEN NewExpression(f, Parameter(f, arg))
                            ELSE [class |-> "Error", args |-> <<>>])
         IN [slot |-> Instance(Len(made)), objects |-> made,
             outcome |-> IF ok THEN "return" ELSE "throw",
             value |-> IF ok THEN Instance(Len(made)) ELSE Str("Error")]
    ELSE [slot |-> slot, objects |-> objects,
          outcome |-> "return", value |-> slot]

ProviderFactory(f, arg, slot, objects, ok) ==
  IF ~Truthy(slot)
    THEN IF ok
      THEN LET made == Append(objects, NewExpression(f, Parameter(f, arg)))
           IN [slot |-> Instance(Len(made)), objects |-> made,
               outcome |-> "return", value |-> Instance(Len(made))]
      ELSE [slot |-> slot, objects |-> objects,
            outcome |-> "throw", value |-> Str("Error")]
    ELSE [slot |-> slot, objects |-> objects,
          outcome |-> "return", value |-> slot]

(***************************************************************************)
(* addPublicNetwork(networks, name, networkId), lines 44-119: the registry *)
(* after the call.                                                         *)
(***************************************************************************)
\* A registration whose legacy entry was copied from the ledger entry
\* without changing the options it passes.
addPublicNetwork_CopiedLedger(nets, name, networkId) ==
  LET options == ("networkCheckTimeout" :> Num("10000"))
                 @@ ("network_id" :> networkId)
                 @@ ("gas" :> gas) @@ ("gasPrice" :> gasPx)
      entry(kind) == ("provider" :> Closure(kind, name, networkId))
                     @@ options
      n1 == (name \o "_gckms" :> entry("gckms")) @@ nets
      n2 == (name \o "_privatekey" :> entry("privatekey")) @@ n1
      n3 == (name \o "_mnemonic" :> entry("mnemonic")) @@ n2
      n4 == (name \o "_ledger" :> entry("ledger")) @@ n3
  IN (name \o "_ledger_legacy" :> entry("ledger")) @@ n4

addPublicNetwork(nets, name, networkId) ==
  LET options == ("networkCheckTimeout" :> Num("10000"))
                 @@ ("network_id" :> networkId)
                 @@ ("gas" :> gas) @@ ("gasPrice" :> gasPx)
      entry(kind) == ("provider" :> Closure(kind, name, networkId))
                     @@ options
      n1 == (name \o "_gckms" :> entry("gckms")) @@ nets
      n2 == (name \o "_privatekey" :> entry("privatekey")) @@ n1
      n3 == (name \o "_mnemonic" :> entry("mnemonic")) @@ n2
      n4 == (name \o "_ledger" :> entry("ledger")) @@ n3
  IN (name \o "_ledger_legacy" :> entry("ledger_legacy")) @@ n4

(***************************************************************************)
(* addLocalNetwork(networks, name, customOptions), lines 124-145.          *)
(* customOptions is a map of the keys given, empty when the argument is    *)
(* omitted.                                                                *)
(***************************************************************************)
\* A registration that applies the environment before the caller's options.
addLocalNetwork_EnvFirst(nets, name, customOptions) ==
  LET defaultOptions == ("host" :> Str("127.0.0.1"))
                        @@ ("network_id" :> Str("*"))
                        @@ ("port" :> Num("9545")) @@ ("gas" :> gas)
      withHost == IF InEnv(env, "LOCALHOST")
                    THEN ("host" :> env.LOCALHOST) @@ defaultOptions
                    ELSE defaultOptions
      withPort == IF InEnv(env, "LOCALPORT")
                    THEN ("port" :> env.LOCALPORT) @@ withHost
                    ELSE withHost
  IN (name :> (customOptions @@ withPort)) @@ nets

addLocalNetwork(nets, name, customOptions) ==
  LET defaultOptions == ("host" :> Str("127.0.0.1"))
                        @@ ("network_id" :> Str("*"))
                        @@ ("port" :> Num("9545")) @@ ("gas" :> gas)
      merged == customOptions @@ defaultOptions
      withHost == IF InEnv(env, "LOCALHOST")
                    THEN ("host" :> env.LOCALHOST) @@ merged
                    ELSE merged
      withPort == IF InEnv(env, "LOCALPORT")
                    THEN ("port" :> env.LOCALPORT) @@ withHost
                    ELSE withHost
  IN (name :> withPort) @@ nets

NoOptions == [k \in {} |-> Undefined]

\* The calls of lines 155-175, in order.
LocalRegistrations ==
  <<[name |-> "ci",
     customOptions |-> ("port" :> Num("8545")) @@ ("network_id" :> Num("1234"))],
    [name |-> "develop", customOptions |-> NoOptions],
    [name |-> "test", customOptions |-> NoOptions],
    [name |-> "coverage",
     customOptions |-> ("port" :> Num("8545")) @@ ("network_id" :> Num("1234"))],
    [name |-> "metamask",
     customOptions |-> ("networkCheckTimeout" :> Num("500000"))
                       @@ ("provider" :> Closure("metamask", "metamask", Undefined))],
    [name |-> "mainnet-fork",
     customOptions |-> ("port" :> Num("1235")) @@ ("network_id" :> Num("1"))]>>

(***************************************************************************)
(* path.join of the POSIX path module, on paths kept as tuples of          *)
(* characters: the non-empty arguments are joined with "/" and the result  *)
(* is normalized (empty and "." segments dropped, ".." resolved, a         *)
(* trailing separator kept, "." for an empty result).                      *)
(***************************************************************************)
RECURSIVE Split(_, _)
\* The segments of cs between separators, cur being the segment under way.
Split(cs, cur) ==
  IF cs = <<>> THEN <<cur>>
  ELSE IF Head(cs) = "/" THEN <<cur>> \o Split(Tail(cs), <<>>)
  ELSE Split(Tail(cs), Append(cur, Head(cs)))

RECURSIVE Resolve(_, _, _)
\* normalizeString: out is the list of segments kept so far.
Resolve(segs, out, allowAboveRoot) ==
  IF segs = <<>> THEN out
  ELSE LET sg == Head(segs)
       IN IF sg = <<>> \/ sg = <<".">>
            THEN Resolve(Tail(segs), out, allowAboveRoot)
          ELSE IF sg = <<".", ".">>
            THEN IF out # <<>> /\ out[Len(out)] # <<".", ".">>
                   THEN Resolve(Tail(segs), SubSeq(out, 1, Len(out) - 1),
                                allowAboveRoot)
                 ELSE IF allowAboveRoot
                   THEN Resolve(Tail(segs), Append(out, sg), allowAboveRoot)
                 ELSE Resolve(Tail(segs), out, allowAboveRoot)
          ELSE Resolve(Tail(segs), Append(out, sg), allowAboveRoot)

RECURSIVE Unsplit(_)
Unsplit(segs) ==
  IF segs = <<>> THEN <<>>
  ELSE IF Len(segs) = 1 THEN Head(segs)
  ELSE Head(segs) \o <<"/">> \o Unsplit(Tail(segs))

normalize(p) ==
  IF p = <<>> THEN <<".">>
  ELSE LET isAbsolute == Head(p) = "/"
           trailingSeparator == p[Len(p)] = "/"
           q == Unsplit(Resolve(Split(p, <<>>), <<>>, ~isAbsolute))
       IN IF q = <<>>
            THEN IF isAbsolute THEN <<"/">>
                 ELSE IF trailingSeparator THEN <<".", "/">> ELSE <<".">>
          ELSE (IF isAbsolute THEN <<"/">> ELSE <<>>) \o q
               \o (IF trailingSeparator THEN <<"/">> ELSE <<>>)

\* A join that concatenates without normalizing.
pathJoin_Raw(a, b) ==
  IF a = <<>> /\ b = <<>> THEN <<".">>
  ELSE IF a = <<>> THEN b
  ELSE IF b = <<>> THEN a
  ELSE a \o <<"/">> \o b

pathJoin(a, b) ==
  IF a = <<>> /\ b = <<>> THEN <<".">>
  ELSE IF a = <<>> THEN normalize(b)
  ELSE IF b = <<>> THEN normalize(a)
  ELSE normalize(a \o <<"/">> \o b)

\* The fixed subpaths of lines 198-200.
Migrations == <<"m", "i", "g", "r", "a", "t", "i", "o", "n", "s">>
Contracts == <<"c", "o", "n", "t", "r", "a", "c", "t", "s">>
BuildContracts == <<"b", "u", "i", "l", "d", "/">> \o Contracts

(***************************************************************************)
(* getTruffleConfig(truffleContextDir = "./"), lines 177-202.  nets is the *)
(* module's networks object, which the record returns as it is.            *)
(***************************************************************************)
\* A build that registers the local networks anew on every call, under a
\* name derived from the context directory.
getTruffleConfig_Reregister(nets, dirArg) ==
  LET truffleContextDir ==
        IF dirArg = Undefined THEN <<".", "/">> ELSE dirArg.v
  IN [networks |-> addLocalNetwork(nets, Concat(truffleContextDir), NoOptions),
      plugins |-> <<"solidity-coverage">>,
      mocha |-> [enableTimeouts |-> FALSE, before_timeout |-> Num("1800000")],
      compilers |->
        [solc |-> [version |-> "0.6.12",
                   settings |-> [optimizer |-> [enabled |-> TRUE,
                                                runs |-> Num("199")]]]],
      migrations_directory |-> Concat(pathJoin(truffleContextDir, Migrations)),
      contracts_directory |-> Concat(pathJoin(truffleContextDir, Contracts)),
      contracts_build_directory |->
        Concat(pathJoin(truffleContextDir, BuildContracts))]

getTruffleConfig(nets, dirArg) ==
  LET truffleContextDir ==
        IF dirArg = Undefined THEN <<".", "/">> ELSE dirArg.v
  IN [networks |-> nets,
      plugins |-> <<"solidity-coverage">>,
      mocha |-> [enableTimeouts |-> FALSE, before_timeout |-> Num("1800000")],
      compilers |->
        [solc |-> [version |-> "0.6.12",
                   settings |-> [optimizer |-> [enabled |-> TRUE,
                                                runs |-> Num("199")]]]],
      migrations_directory |-> Concat(pathJoin(truffleContextDir, Migrations)),
      contracts_directory |-> Concat(pathJoin(truffleContextDir, Contracts)),
      contracts_build_directory |->
        Concat(pathJoin(truffleContextDir, BuildContracts))]

\* The context directories the callers pass; Undefined is the omitted
\* argument.
ContextDirs ==
  {Undefined, Str(<<".", "/">>), Str(<<>>), Str(<<".">>),
   Str(<<"/", "w", "/">>), Str(<<"p", "k", "g", "/", ".", ".", "/", "c">>)}

\* The endpoint arguments the callers pass to a provider factory.
EndpointArgs == {Undefined, Str("ws://127.0.0.1:8546")}

(***************************************************************************)
(* The state machine.  pc is the position in the module body; i the index  *)
(* of the next registration; heap the provider objects constructed so      *)
(* far; returned the references the factories have returned; firstSuccess  *)
(* the first factory invocation that returned; lastThrow the key of the    *)
(* latest factory invocation when it threw, "" otherwise; result the       *)
(* outcome of the last operation (for a factory invocation, with the       *)
(* lastThrow it came after).                                               *)
(***************************************************************************)
Start ==
  /\ pc = "credentials"
  /\ mnemonic = Undefined
  /\ privateKey = Undefined
  /\ infuraApiKey = Undefined
  /\ customNodeUrl = Undefined
  /\ keyOffset = Undefined
  /\ numKeys = Undefined
  /\ nodeUrl = Undefined
  /\ singletonProvider = Undefined
  /\ networks = NoOptions
  /\ i = 1
  /\ heap = <<>>
  /\ returned = {}
  /\ firstSuccess = Undefined
  /\ lastThrow = ""
  /\ result = [op |-> "none"]

Init == env \in CallEnvironments /\ Start

\* Lines 18-32.
ResolveCredentials ==
  /\ pc = "credentials"
  /\ mnemonic' = ResolveMnemonic(env)
  /\ privateKey' = ResolvePrivateKey(env)
  /\ infuraApiKey' = ResolveInfuraApiKey(env)
  /\ customNodeUrl' = env.CUSTOM_NODE_URL
  /\ keyOffset' = ResolveKeyOffset(env)
  /\ numKeys' = ResolveNumKeys(env)
  /\ pc' = "nodeUrl"
  /\ UNCHANGED <<env, nodeUrl, singletonProvider, networks, i, heap,
                 returned, firstSuccess, lastThrow, result>>

\* Line 39: an exception ends the loading of the module.
EvalNodeUrl ==
  /\ pc = "nodeUrl"
  /\ LET r == ResolveNodeUrl(customNodeUrl, infuraApiKey)
     IN IF r.outcome = "value"
          THEN /\ nodeUrl' = r.value
               /\ pc' = "public"
               /\ UNCHANGED result
          ELSE /\ pc' = "threw"
               /\ result' = [op |-> "require", outcome |-> "throw",
                             value |-> r.value]
               /\ UNCHANGED nodeUrl
  /\ UNCHANGED <<env, mnemonic, privateKey, infuraApiKey, customNodeUrl,
                 keyOffset, numKeys, singletonProvider, networks, i, heap,
                 returned, firstSuccess, lastThrow>>

\* Lines 150-152: one iteration of the loop.
RegisterPublic ==
  /\ pc = "public"
  /\ i <= Len(PublicNetworks)
  /\ networks' = addPublicNetwork(networks, PublicNetworks[i].name,
                                  PublicNetworks[i].id)
  /\ IF i = Len(PublicNetworks)
       THEN pc' = "local" /\ i' = 1
       ELSE pc' = pc /\ i' = i + 1
  /\ UNCHANGED <<env, mnemonic, privateKey, infuraApiKey, customNodeUrl,
                 keyOffset, numKeys, nodeUrl, singletonProvider, heap,
                 returned, firstSuccess, lastThrow, result>>

\* Lines 155-175: one call of addLocalNetwork.
RegisterLocal ==
  /\ pc = "local"
  /\ i <= Len(LocalRegistrations)
  /\ networks' = addLocalNetwork(networks, LocalRegistrations[i].name,
                                 LocalRegistrations[i].customOptions)
  /\ IF i = Len(LocalRegistrations)
       THEN pc' = "ready" /\ i' = 1
       ELSE pc' = pc /\ i' = i + 1
  /\ UNCHANGED <<env, mnemonic, privateKey, infuraApiKey, customNodeUrl,
                 keyOffset, numKeys, nodeUrl, singletonProvider, heap,
                 returned, firstSuccess, lastThrow, result>>

\* A caller invokes the exported getTruffleConfig.  The networks field of
\* the record is the module's networks object itself.
GetTruffleConfig ==
  /\ pc = "ready"
  /\ \E dir \in ContextDirs :
       LET config == getTruffleConfig(networks, dir)
       IN /\ result' = [op |-> "getTruffleConfig", arg |-> dir,
                        outcome |-> "return", value |-> config]
          /\ networks' = config.networks
  /\ UNCHANGED <<env, pc, mnemonic, privateKey, infuraApiKey, customNodeUrl,
                 keyOffset, numKeys, nodeUrl, singletonProvider, i,
                 heap, returned, firstSuccess, lastThrow>>

\* A caller invokes the provider factory of a network entry.
InvokeProvider ==
  /\ pc = "ready"
  /\ \E key \in DOMAIN networks, arg \in EndpointArgs, ok \in BOOLEAN :
       /\ "provider" \in DOMAIN networks[key]
       /\ LET r == ProviderFactory(networks[key]["provider"], arg,
                                   singletonProvider, heap, ok)
          IN /\ Len(r.objects) <= MaxObjects
             /\ singletonProvider' = r.slot
             /\ heap' = r.objects
             /\ returned' = IF r.outcome = "return"
                              THEN returned \cup {r.value} ELSE returned
             /\ firstSuccess' = IF firstSuccess = Undefined
                                   /\ r.outcome = "return"
                                  THEN [key |-> key, arg |-> arg]
                                  ELSE firstSuccess
             /\ lastThrow' = IF r.outcome = "throw" THEN key ELSE ""
             /\ result' = [op |-> "provider", key |-> key, arg |-> arg,
                           after |-> lastThrow,
                           outcome |-> r.outcome, value |-> r.value]
  /\ UNCHANGED <<env, pc, mnemonic, privateKey, infuraApiKey, customNodeUrl,
                 keyOffset, numKeys, nodeUrl, networks, i>>

Next ==
  \/ ResolveCredentials
  \/ EvalNodeUrl
  \/ RegisterPublic
  \/ RegisterLocal
  \/ GetTruffleConfig
  \/ InvokeProvider

Spec == Init /\ [][Next]_vars

(***************************************************************************)
(* The loading of the module and the building of the configuration under   *)
(* every environment.                                                      *)
(***************************************************************************)
InitEnv == env \in Environments /\ Start

NextEnv ==
  \/ ResolveCredentials
  \/ EvalNodeUrl
  \/ RegisterPublic
  \/ RegisterLocal
  \/ GetTruffleConfig

SpecEnv == InitEnv /\ [][NextEnv]_vars

(***************************************************************************)
(* Vocabulary of the properties.                                           *)
(***************************************************************************)
Variants == {"gckms", "privatekey", "mnemonic", "ledger", "ledger_legacy"}

PublicNames == {PublicNetworks[n].name : n \in 1..Len(PublicNetworks)}

FiveKeys(name) ==
  {name \o "_gckms", name \o "_privatekey", name \o "_mnemonic",
   name \o "_ledger", name \o "_ledger_legacy"}

PublicKeys == UNION {FiveKeys(name) : name \in PublicNames}

\* The variant a registry key nominally belongs to.
VariantOf(key) ==
  IF key \in PublicKeys
    THEN CHOOSE v \in Variants : \E name \in PublicNames : key = name \o "_" \o v
    ELSE "metamask"

\* The mechanism of a constructed provider, read off its constructor and
\* the shape of its arguments.
MechanismOf(object) ==
  CASE object.class = "ManagedSecretProvider" -> "gckms"
    [] object.class = "HDWalletProvider" ->
         IF object.args[1].t = "array" THEN "privatekey" ELSE "mnemonic"
    [] object.class = "LedgerWalletProvider" ->
         IF "path" \in DOMAIN object.args[1].v THEN "ledger"
         ELSE "ledger_legacy"
    [] object.class = "MetaMaskTruffleProvider" -> "metamask"
    [] OTHER -> "none"

\* The endpoint a provider was constructed with.
EndpointOf(object) ==
  CASE object.class = "ManagedSecretProvider" -> object.args[2]
    [] object.class = "HDWalletProvider" -> object.args[2]
    [] object.class = "LedgerWalletProvider" -> object.args[2]
    [] OTHER -> Undefined

Returned == result.op = "provider" /\ result.outcome = "return"
Threw == result.op = "provider" /\ result.outcome = "throw"

\* C1: every provider-factory invocation that returns yields the same
\* provider object reference as every other invocation that returned,
\* whatever the networks and variants invoked and in whatever order.
C1_SameReference ==
  /\ \A a \in returned, b \in returned : a = b
  /\ Returned => result.value \in returned

\* Two factories of different public variants have returned.
C1_Witness ==
  /\ Returned
  /\ firstSuccess # Undefined
  /\ result.key \in PublicKeys /\ firstSuccess.key \in PublicKeys
  /\ VariantOf(result.key) # VariantOf(firstSuccess.key)
  /\ Cardinality(returned) = 1

\* C9: over any sequence of factory invocations, the public variants and
\* the metamask factory counted together, at most one provider is ever
\* constructed.
C9_AtMostOneProvider == Len(heap) <= 1

\* The metamask factory and a public factory have both returned.
C9_Witness ==
  /\ Returned
  /\ firstSuccess # Undefined
  /\ (result.key = "metamask") # (firstSuccess.key = "metamask")
  /\ Len(heap) = 1

\* C2: the shared provider has the mechanism and the endpoint of the first
\* factory invocation that succeeded; every later invocation returns that
\* instance, constructs nothing and leaves mechanism and endpoint as they
\* were.
C2_FirstSuccessDecides ==
  firstSuccess # Undefined =>
    /\ singletonProvider = Instance(1)
    /\ Len(heap) = 1
    /\ MechanismOf(heap[1]) = VariantOf(firstSuccess.key)
    /\ EndpointOf(heap[1]) =
         (IF firstSuccess.key = "metamask" THEN Undefined
          ELSE IF firstSuccess.arg = Undefined THEN nodeUrl
          ELSE firstSuccess.arg)
    /\ Returned => result.value = Instance(1)

\* A later invocation of another mechanism, with another endpoint argument,
\* has returned.
C2_Witness ==
  /\ Returned
  /\ firstSuccess # Undefined
  /\ VariantOf(result.key) # VariantOf(firstSuccess.key)
  /\ result.arg # firstSuccess.arg
  /\ firstSuccess.arg # Undefined
  /\ MechanismOf(heap[1]) # VariantOf(result.key)

\* C10: a constructor that throws while the slot is empty lets the error
\* reach the caller and leaves the slot empty; the next factory invocation
\* constructs with its own mechanism, which becomes that of the shared
\* provider.
C10_ThrowLeavesSlotEmpty ==
  /\ Threw => /\ singletonProvider = Undefined
              /\ heap = <<>>
              /\ firstSuccess = Undefined
              /\ result.value = Str("Error")
  /\ (Returned /\ result.after # "") =>
       /\ firstSuccess = [key |-> result.key, arg |-> result.arg]
       /\ singletonProvider = Instance(1)
       /\ Len(heap) = 1
       /\ MechanismOf(heap[1]) = VariantOf(result.key)

\* The first invocation to succeed follows a throw of another mechanism.
C10_Witness ==
  /\ Returned
  /\ result.after # ""
  /\ VariantOf(result.after) # VariantOf(result.key)
  /\ MechanismOf(heap[1]) = VariantOf(result.key)

\* The public networks registered so far.
RegisteredPublic ==
  CASE pc = "public" -> {PublicNetworks[n] : n \in 1..(i - 1)}
    [] pc \in {"local", "ready"} ->
         {PublicNetworks[n] : n \in 1..Len(PublicNetworks)}
    [] OTHER -> {}

LocalNames == {"ci", "develop", "test", "coverage", "metamask", "mainnet-fork"}

\* The chain id of the public network a key belongs to.
NetworkIdOf(key) ==
  (CHOOSE n \in RegisteredPublic : key \in FiveKeys(n.name)).id

\* The provider each variant is to construct, given the chain id and the
\* endpoint.
ExpectedProvider(variant, id, endpoint) ==
  CASE variant = "gckms" ->
         [class |-> "ManagedSecretProvider",
          args |-> <<GckmsConfig, endpoint, Num("0"), GckmsConfigLength>>]
    [] variant = "privatekey" ->
         [class |-> "HDWalletProvider",
          args |-> <<Arr(<<privateKey>>), endpoint>>]
    [] variant = "mnemonic" ->
         [class |-> "HDWalletProvider",
          args |-> <<mnemonic, endpoint, keyOffset, numKeys>>]
    [] variant = "ledger" ->
         [class |-> "LedgerWalletProvider",
          args |-> <<Obj([networkId |-> id, accountsLength |-> numKeys,
                          accountsOffset |-> keyOffset,
                          path |-> Str("44'/60'/0'/0/0")]), endpoint>>]
    [] variant = "ledger_legacy" ->
         [class |-> "LedgerWalletProvider",
          args |-> <<Obj([networkId |-> id, accountsLength |-> numKeys,
                          accountsOffset |-> keyOffset]), endpoint>>]

\* C3: addPublicNetwork adds exactly the five suffixed keys of the name and
\* no others; the five entries carry the same base options
\* (networkCheckTimeout 10000, network_id the given id, gas unset, gasPrice
\* 20000000000); and the factory of each entry, when it is the first to be
\* invoked, constructs the provider of its own mechanism, the five
\* mechanisms being distinct.
C3_FiveVariants ==
  /\ DOMAIN networks \ LocalNames =
       UNION {FiveKeys(n.name) : n \in RegisteredPublic}
  /\ \A n \in RegisteredPublic :
       /\ Cardinality(FiveKeys(n.name)) = 5
       /\ \A key \in FiveKeys(n.name) :
            /\ DOMAIN networks[key] =
                 {"networkCheckTimeout", "network_id", "gas", "gasPrice",
                  "provider"}
            /\ networks[key]["networkCheckTimeout"] = Num("10000")
            /\ networks[key]["network_id"] = n.id
            /\ networks[key]["gas"] = Undefined
            /\ networks[key]["gasPrice"] = Num("20000000000")
  /\ (/\ Returned
      /\ result.key \in PublicKeys
      /\ firstSuccess = [key |-> result.key, arg |-> result.arg]) =>
       /\ heap[1] = ExpectedProvider(VariantOf(result.key),
                                     NetworkIdOf(result.key),
                                     IF result.arg = Undefined THEN nodeUrl
                                     ELSE result.arg)
       /\ MechanismOf(heap[1]) = VariantOf(result.key)
  /\ Cardinality({MechanismOf(ExpectedProvider(v, Str("1"), nodeUrl)) :
                    v \in Variants}) = 5

\* The legacy ledger factory of the second public network was the first to
\* be invoked.
C3_Witness ==
  /\ pc = "ready"
  /\ Returned
  /\ result.key = "kovan_ledger_legacy"
  /\ firstSuccess = [key |-> result.key, arg |-> result.arg]
  /\ Len(heap) = 1
  /\ Cardinality(DOMAIN networks \ LocalNames) = 10

\* The local networks registered so far.
RegisteredLocal ==
  CASE pc = "local" -> {LocalRegistrations[n] : n \in 1..(i - 1)}
    [] pc = "ready" -> {LocalRegistrations[n] : n \in 1..Len(LocalRegistrations)}
    [] OTHER -> {}

\* C4: in the entry of a local network each key of the overrides has the
\* override value and each other default key its default (host 127.0.0.1,
\* network_id "*", port 9545, gas unset), except that host (port) has the
\* value of LOCALHOST (LOCALPORT) whenever that variable is set; with
\* LOCALPORT=9999 the develop network's port is the environment's 9999.
C4_LocalPrecedence ==
  /\ \A r \in RegisteredLocal :
       /\ r.name \in DOMAIN networks
       /\ DOMAIN networks[r.name] =
            {"host", "network_id", "port", "gas"} \cup DOMAIN r.customOptions
       /\ \A k \in DOMAIN networks[r.name] :
            networks[r.name][k] =
              (IF k = "host" /\ InEnv(env, "LOCALHOST") THEN env.LOCALHOST
               ELSE IF k = "port" /\ InEnv(env, "LOCALPORT") THEN env.LOCALPORT
               ELSE IF k \in DOMAIN r.customOptions THEN r.customOptions[k]
               ELSE IF k = "host" THEN Str("127.0.0.1")
               ELSE IF k = "network_id" THEN Str("*")
               ELSE IF k = "port" THEN Num("9545")
               ELSE Undefined)
  /\ (pc = "ready" /\ env.LOCALPORT = Str("9999")) =>
       networks["develop"]["port"] = Str("9999")

\* Every local network is registered, under an environment that sets both
\* variables: the ci entry, whose override names a port, has the
\* environment's port.
C4_Witness ==
  /\ pc = "ready"
  /\ InEnv(env, "LOCALHOST") /\ InEnv(env, "LOCALPORT")
  /\ networks["ci"]["port"] = Str("9999")
  /\ networks["ci"]["network_id"] = Num("1234")
  /\ networks["develop"]["host"] = env.LOCALHOST

\* A variable that is present and non-empty.
Provided(x) == x # Undefined /\ Len(x.v) > 0

\* C5: once the credentials are resolved, each of mnemonic, privateKey and
\* infuraApiKey is the environment's value when the variable is present and
\* non-empty and the fallback literal otherwise; with no variable set they
\* are the three fallbacks, keyOffset is 0 and numKeys is 2.
C5_CredentialFallback ==
  pc # "credentials" =>
    /\ mnemonic = (IF Provided(env.MNEMONIC) THEN env.MNEMONIC
                   ELSE Str(FallbackMnemonic))
    /\ privateKey = (IF Provided(env.PRIVATE_KEY) THEN env.PRIVATE_KEY
                     ELSE Str(FallbackPrivateKey))
    /\ infuraApiKey = (IF Provided(env.INFURA_API_KEY) THEN env.INFURA_API_KEY
                       ELSE Str(FallbackInfuraApiKey))
    /\ (\A k \in DOMAIN env : env[k] = Undefined) =>
         /\ mnemonic = Str(FallbackMnemonic)
         /\ privateKey = Str(FallbackPrivateKey)
         /\ infuraApiKey = Str(FallbackInfuraApiKey)
         /\ keyOffset = Num("0")
         /\ numKeys = Num("2")

\* The credentials are resolved under an environment in which one variable
\* is set to a value, one is set but empty and one is not set.
C5_Witness ==
  /\ pc = "nodeUrl"
  /\ env.MNEMONIC = Str("test test junk") /\ mnemonic = env.MNEMONIC
  /\ env.PRIVATE_KEY = Str("") /\ privateKey = Str(FallbackPrivateKey)
  /\ env.INFURA_API_KEY = Undefined
  /\ infuraApiKey = Str(FallbackInfuraApiKey)

\* C6: under every environment, CUSTOM_NODE_URL unset included, the
\* resolution of the credentials and of the node endpoint and the building
\* of the configuration signal no error.
C6_NoErrorSignaled ==
  /\ pc # "threw"
  /\ result.op # "none" => result.outcome # "throw"

\* C7 as stated: build("./") returns ./migrations, ./contracts and
\* ./build/contracts.
C7_DotSlashPaths ==
  (result.op = "getTruffleConfig" /\ result.arg = Str(<<".", "/">>)) =>
    /\ result.value.migrations_directory = "./migrations"
    /\ result.value.contracts_directory = "./contracts"
    /\ result.value.contracts_build_directory = "./build/contracts"

\* C7, amended: build("./") returns the normalized joins, which carry no
\* leading "./": migrations, contracts and build/contracts.
C7_NormalizedPaths ==
  (result.op = "getTruffleConfig" /\ result.arg = Str(<<".", "/">>)) =>
    /\ result.value.migrations_directory = "migrations"
    /\ result.value.contracts_directory = "contracts"
    /\ result.value.contracts_build_directory = "build/contracts"

\* build("./") has returned.
C7_Witness ==
  /\ result.op = "getTruffleConfig"
  /\ result.arg = Str(<<".", "/">>)
  /\ result.outcome = "return"
  /\ result.value.migrations_directory = "migrations"

\* C8: once the network table is assembled no operation changes it, neither
\* its names nor a field of an entry, and every build returns that table.
C8_NetworksFrozen ==
  /\ [][pc = "ready" => networks' = networks]_vars
  /\ [](result.op = "getTruffleConfig" => result.value.networks = networks)

\* A build has returned the table after a provider was constructed.
C8_Witness ==
  /\ result.op = "getTruffleConfig"
  /\ singletonProvider = Instance(1)
  /\ result.arg = Str(<<"/", "w", "/">>)
  /\ result.value.networks = networks
  /\ Cardinality(DOMAIN networks) = 16

====
